---- MODULE Spec2Model ----
(***************************************************************************)
(* A model of pybrary-of-babel: the numeral codec of generate.py, the      *)
(* sampling and batch phases of Experiment.run (experiment.py) and the     *)
(* outcome classification of ExecutionResult (runner.py).                  *)
(*                                                                         *)
(* A Python str is a sequence of code points (integers); a hex string is   *)
(* a sequence of one-character strings.  Python ints are unbounded, as are *)
(* the integers here.                                                      *)
(***************************************************************************)
EXTENDS Integers, Sequences, FiniteSets, TLC

VARIABLES
    codec_args,         \* the (program_length, ascii_range, ascii_min) a codec call is given
    codec_input,        \* the identifier or the program the codec is applied to
    decoded,            \* outcome of hex_to_program
    decoded_slow,       \* outcome of hex_to_program_slow
    encoded,            \* outcome of program_to_hex
    encoded_slow,       \* outcome of program_to_hex_slow
    completed,          \* the subprocess.CompletedProcess handed to ExecutionResult
    execution_result,   \* the ExecutionResult built from it
    record,             \* the record _write_results makes of it
    generator_config,   \* Experiment.generator_config
    experiment_config,  \* Experiment.experiment_config
    pc,                 \* where Experiment.run is
    hex_program_map,    \* the dict of run(), as its items in insertion order
    hex,                \* the local of the sampling loop: the hex string last drawn
    redrew,             \* history: some draw hit an identifier already in the map
    next_task,          \* how many items of the map Parallel has dispatched
    running,            \* the tasks a worker thread is executing
    results,            \* what each task's worker returned, by position in the map
    out,                \* the dict run() returns
    dispatch_log,       \* history: the identifiers handed to a worker, in order
    runs,               \* history: the calls of Runner.run that returned, with the task of each
    out_of_order        \* history: some task returned while an earlier one was still running

codecVars == <<codec_args, codec_input, decoded, decoded_slow, encoded, encoded_slow>>
resultVars == <<completed, execution_result, record>>
samplingVars == <<hex_program_map, hex, redrew>>
batchVars == <<next_task, running, results, out, dispatch_log, runs, out_of_order>>
runVars == <<generator_config, experiment_config, pc, samplingVars, batchVars>>
vars == <<codecVars, resultVars, runVars>>

(***************************************************************************)
(* Bounds of the model.                                                    *)
(***************************************************************************)
MaxLen == 3         \* program_length ranges over 1..MaxLen
MaxRange == 3       \* ascii_range ranges over 2..MaxRange
IdSlack == 2        \* identifiers are drawn up to IdSlack beyond either end of [0, range^L - 1]
MaxSignal == 9      \* a child killed by signal n has returncode -n, n in 1..MaxSignal
MaxStatus == 126    \* exit statuses range over 0..MaxStatus
MaxLineLength == 2  \* line_length ranges over 1..MaxLineLength
MaxSamples == 3     \* n_samples ranges over 1..MaxSamples
MaxWorkers == 2     \* n_workers ranges over 1..MaxWorkers
MaxByte == 1        \* the random source draws bytes from 0..MaxByte and 255

AsciiMins == {0, 32}

\* Python's None, for a call not made yet (a record, as every outcome is)
None == [none |-> TRUE]

(***************************************************************************)
(* Python builtins used by the codec.                                      *)
(***************************************************************************)
RECURSIVE Pow(_, _)
Pow(b, e) == IF e = 0 THEN 1 ELSE b * Pow(b, e - 1)

HexDigits == <<"0", "1", "2", "3", "4", "5", "6", "7",
               "8", "9", "a", "b", "c", "d", "e", "f">>

DigitValue(c) == (CHOOSE i \in 1..16 : HexDigits[i] = c) - 1

\* the hex digits of n >= 0, most significant first, no leading zero ("0" for 0)
RECURSIVE HexOfNat(_)
HexOfNat(n) ==
    IF n < 16 THEN <<HexDigits[n + 1]>>
    ELSE Append(HexOfNat(n \div 16), HexDigits[(n % 16) + 1])

\* hex(n): "0x.." for n >= 0, "-0x.." for n < 0
hex_builtin(n) ==
    IF n < 0 THEN <<"-", "0", "x">> \o HexOfNat(0 - n)
    ELSE <<"0", "x">> \o HexOfNat(n)

RECURSIVE DigitsToInt(_, _)
DigitsToInt(s, acc) ==
    IF s = <<>> THEN acc
    ELSE DigitsToInt(Tail(s), acc * 16 + DigitValue(Head(s)))

StripPrefix(s) ==
    IF Len(s) >= 2 /\ s[1] = "0" /\ s[2] = "x" THEN SubSeq(s, 3, Len(s)) ELSE s

\* int(s, 16): optional sign, optional 0x prefix, then base-16 digits
int_builtin(s) ==
    IF s # <<>> /\ Head(s) = "-"
    THEN 0 - DigitsToInt(StripPrefix(Tail(s)), 0)
    ELSE DigitsToInt(StripPrefix(s), 0)

chr(i) == <<i>>         \* a one-character str
ord(c) == c[1]

\* the outcome of a call: a returned value, or the ValueError of program_to_hex_slow
Returned(v) == [raised |-> FALSE, value |-> v]
CharacterError(char, position) == [raised |-> TRUE, char |-> char, position |-> position]

(***************************************************************************)
(* generate.py: the codec.                                                 *)
(***************************************************************************)
\* hex_to_program_slow with the power of the next position
RECURSIVE HexToProgramSlowLoopNextPower(_, _, _, _, _, _)
HexToProgramSlowLoopNextPower(program_number, position, program_length, ascii_range, ascii_min, program) ==
    IF position >= program_length THEN program
    ELSE LET char_index == (program_number \div Pow(ascii_range, position + 1)) % ascii_range
         IN  HexToProgramSlowLoopNextPower(program_number, position + 1, program_length,
                 ascii_range, ascii_min, program \o chr(char_index + ascii_min))

hex_to_program_slow_next_power(hex_string, program_length, ascii_range, ascii_min) ==
    HexToProgramSlowLoopNextPower(int_builtin(hex_string), 0, program_length, ascii_range,
                                  ascii_min, <<>>)

RECURSIVE HexToProgramSlowLoop(_, _, _, _, _, _)
HexToProgramSlowLoop(program_number, position, program_length, ascii_range, ascii_min, program) ==
    IF position >= program_length THEN program
    ELSE LET char_index == (program_number \div Pow(ascii_range, position)) % ascii_range
         IN  HexToProgramSlowLoop(program_number, position + 1, program_length, ascii_range,
                                  ascii_min, program \o chr(char_index + ascii_min))

hex_to_program_slow(hex_string, program_length, ascii_range, ascii_min) ==
    HexToProgramSlowLoop(int_builtin(hex_string), 0, program_length, ascii_range, ascii_min, <<>>)

\* hex_to_program writing the most significant digit first
RECURSIVE HexToProgramLoopPrepend(_, _, _, _, _)
HexToProgramLoopPrepend(program_number, remaining, ascii_range, ascii_min, program) ==
    IF remaining = 0 THEN program
    ELSE LET char_index == program_number % ascii_range
         IN  HexToProgramLoopPrepend(program_number \div ascii_range, remaining - 1, ascii_range,
                                     ascii_min, chr(ascii_min + char_index) \o program)

hex_to_program_prepend(hex_string, program_length, ascii_range, ascii_min) ==
    HexToProgramLoopPrepend(int_builtin(hex_string), program_length, ascii_range, ascii_min, <<>>)

\* hex_to_program taking the quotient before the remainder
RECURSIVE HexToProgramLoopDivideFirst(_, _, _, _, _)
HexToProgramLoopDivideFirst(program_number, remaining, ascii_range, ascii_min, program) ==
    IF remaining = 0 THEN program
    ELSE LET quotient == program_number \div ascii_range
             char_index == quotient % ascii_range
         IN  HexToProgramLoopDivideFirst(quotient, remaining - 1, ascii_range,
                                         ascii_min, program \o chr(ascii_min + char_index))

hex_to_program_divide_first(hex_string, program_length, ascii_range, ascii_min) ==
    HexToProgramLoopDivideFirst(int_builtin(hex_string), program_length, ascii_range,
                                ascii_min, <<>>)

RECURSIVE HexToProgramLoop(_, _, _, _, _)
HexToProgramLoop(program_number, remaining, ascii_range, ascii_min, program) ==
    IF remaining = 0 THEN program
    ELSE LET char_index == program_number % ascii_range
         IN  HexToProgramLoop(program_number \div ascii_range, remaining - 1, ascii_range,
                              ascii_min, program \o chr(ascii_min + char_index))

hex_to_program(hex_string, program_length, ascii_range, ascii_min) ==
    HexToProgramLoop(int_builtin(hex_string), program_length, ascii_range, ascii_min, <<>>)

RECURSIVE ProgramToHexSlowLoop(_, _, _, _, _, _)
ProgramToHexSlowLoop(program, position, ascii_min, ascii_max, ascii_range, program_number) ==
    IF position >= Len(program) THEN Returned(hex_builtin(program_number))
    ELSE LET char == <<program[position + 1]>>
             ascii_value == ord(char)
         IN  IF ascii_value < ascii_min \/ ascii_value > ascii_max
             THEN CharacterError(char, position)
             ELSE ProgramToHexSlowLoop(program, position + 1, ascii_min, ascii_max, ascii_range,
                      program_number + (ascii_value - ascii_min) * Pow(ascii_range, position))

program_to_hex_slow(program, ascii_min, ascii_max, ascii_range) ==
    ProgramToHexSlowLoop(program, 0, ascii_min, ascii_max, ascii_range, 0)

\* the loop runs over reversed(program): index i counts down from the last character
RECURSIVE ProgramToHexLoop(_, _, _, _, _)
ProgramToHexLoop(program, i, ascii_min, ascii_range, program_number) ==
    IF i = 0 THEN program_number
    ELSE LET char == <<program[i]>>
             char_index == ord(char) - ascii_min
         IN  ProgramToHexLoop(program, i - 1, ascii_min, ascii_range,
                              program_number * ascii_range + char_index)

\* program_to_hex without reversed(): the first character becomes the most significant digit
RECURSIVE ProgramToHexLoopForward(_, _, _, _, _)
ProgramToHexLoopForward(program, i, ascii_min, ascii_range, program_number) ==
    IF i > Len(program) THEN program_number
    ELSE LET char == <<program[i]>>
             char_index == ord(char) - ascii_min
         IN  ProgramToHexLoopForward(program, i + 1, ascii_min, ascii_range,
                                     program_number * ascii_range + char_index)

program_to_hex_forward(program, ascii_min, ascii_range) ==
    Returned(hex_builtin(ProgramToHexLoopForward(program, 1, ascii_min, ascii_range, 0)))

program_to_hex(program, ascii_min, ascii_range) ==
    Returned(hex_builtin(ProgramToHexLoop(program, Len(program), ascii_min, ascii_range, 0)))

(***************************************************************************)
(* generate.py: GeneratorConfig and the random source.                     *)
(***************************************************************************)
program_length(config) == config.line_length * config.total_lines

ascii_range(config) == config.ascii_max - config.ascii_min + 1

\* math.ceil(x * math.log2(r)) for integers x >= 0, r >= 1: the least k with 2^k >= r^x
RECURSIVE CeilLog2From(_, _)
CeilLog2From(n, k) == IF Pow(2, k) >= n THEN k ELSE CeilLog2From(n, k + 1)

bytes_needed(config) ==
    LET bits == CeilLog2From(Pow(ascii_range(config), program_length(config)), 0)
    IN  (bits + 7) \div 8

\* bytes.hex(): two lowercase digits a byte, no prefix
RECURSIVE BytesHex(_)
BytesHex(bytes) ==
    IF bytes = <<>> THEN <<>>
    ELSE <<HexDigits[(Head(bytes) \div 16) + 1], HexDigits[(Head(bytes) % 16) + 1]>>
         \o BytesHex(Tail(bytes))

\* random_hex(bytes_needed, rng), given the bytes the generator produced
random_hex(bytes) == BytesHex(bytes)

(***************************************************************************)
(* runner.py: ExecutionResult.                                             *)
(***************************************************************************)
ExecutionResult(completed_process) ==
    [returncode |-> completed_process.returncode,
     stdout |-> completed_process.stdout,
     stderr |-> completed_process.stderr]

ok(result) == result.returncode = 0

timed_out(result) == result.returncode = 124

\* success taken for the truth value of the result (__bool__ is ok)
success_ok_only(result) == ok(result)

success(result) == ok(result) \/ timed_out(result)

\* ExecutionResult.__bool__
bool(result) == ok(result)

\* what subprocess.run returns in Runner.run for a child that ended with returncode;
\* the captured streams are not modelled
CompletedProcess(returncode) == [returncode |-> returncode, stdout |-> <<>>, stderr |-> <<>>]

\* Runner.run(code), given the status the sandboxed child ended with
runner_run(code, returncode) == ExecutionResult(CompletedProcess(returncode))

(***************************************************************************)
(* __main__.py: the record _write_results makes of one result.             *)
(***************************************************************************)
ResultRecord(res) ==
    [returncode |-> res.returncode,
     ok |-> ok(res),
     timed_out |-> timed_out(res),
     success |-> success(res)]

(***************************************************************************)
(* experiment.py: the pieces of Experiment.run.                            *)
(***************************************************************************)
Keys(items) == {items[i][1] : i \in 1..Len(items)}

\* dict lookup in a dict held as its items
Lookup(items, key) == items[CHOOSE i \in 1..Len(items) : items[i][1] = key][2]

\* the loop body without the membership test
StoreSampleUnchecked(items, drawn, config) ==
    Append(items, <<drawn, hex_to_program(drawn, program_length(config),
                                          ascii_range(config), config.ascii_min)>>)

\* the body of the sampling loop after the draw: a new identifier is stored with its
\* program, a known one changes nothing
StoreSample(items, drawn, config) ==
    IF drawn \notin Keys(items)
    THEN Append(items, <<drawn, hex_to_program(drawn, program_length(config),
                                               ascii_range(config), config.ascii_min)>>)
    ELSE items

\* the closure worker(hex, program) of run(), given the status of the child it ran
worker(hex_key, program, returncode) == <<hex_key, runner_run(program, returncode)>>

\* the comprehension filtering on "if result", the truth value of the result
AcceptedTruthy(result_list) ==
    LET kept == {i \in 1..Len(result_list) : bool(result_list[i][2])}
    IN  [h \in {result_list[i][1] : i \in kept} |->
            result_list[CHOOSE i \in kept : result_list[i][1] = h][2]]

\* out = {hex: result for hex, result in results if result.success}
Accepted(result_list) ==
    LET kept == {i \in 1..Len(result_list) : success(result_list[i][2])}
    IN  [h \in {result_list[i][1] : i \in kept} |->
            result_list[CHOOSE i \in kept :
                            /\ result_list[i][1] = h
                            /\ \A j \in kept : result_list[j][1] = h => j <= i][2]]

(***************************************************************************)
(* The codec applied to drawn inputs.  An identifier input is decoded and  *)
(* the program re-encoded; a program input is encoded and the identifier   *)
(* decoded again.  The slow variants receive the arguments of the fast.    *)
(***************************************************************************)
RECURSIVE StringsOver(_, _)
StringsOver(chars, n) ==
    IF n = 0 THEN {<<>>}
    ELSE {Append(s, c) : s \in StringsOver(chars, n - 1), c \in chars}

AsciiMax(args) == args.ascii_min + args.ascii_range - 1

CodecArgs ==
    [program_length : 1..MaxLen, ascii_range : 2..MaxRange, ascii_min : AsciiMins]

\* identifiers of the space and a few beyond each end
Identifiers(args) ==
    (0 - IdSlack)..(Pow(args.ascii_range, args.program_length) - 1 + IdSlack)

\* strings of length program_length over the alphabet widened by one code point on each side
Programs(args) ==
    StringsOver({c \in (args.ascii_min - 1)..(AsciiMax(args) + 1) : c >= 0}, args.program_length)

InAlphabet(program, args) ==
    \A i \in 1..Len(program) : program[i] >= args.ascii_min /\ program[i] <= AsciiMax(args)

InSpace(identifier, args) ==
    identifier >= 0 /\ identifier <= Pow(args.ascii_range, args.program_length) - 1

IsIdentifier == codec_input.kind = "identifier"
IsProgram == codec_input.kind = "program"

\* the hex string handed to hex_to_program and hex_to_program_slow
HexArgReady == codec_input # None /\ (IsIdentifier \/ encoded # None)
HexArg == IF IsIdentifier THEN hex_builtin(codec_input.identifier) ELSE encoded.value

\* the program handed to program_to_hex and program_to_hex_slow
ProgramArgReady == codec_input # None /\ (IsProgram \/ decoded # None)
ProgramArg == IF IsProgram THEN codec_input.program ELSE decoded.value


ResultIdle == completed = None /\ execution_result = None /\ record = None

RunIdle ==
    /\ generator_config = None
    /\ experiment_config = None
    /\ pc = "idle"
    /\ hex_program_map = <<>>
    /\ hex = None
    /\ redrew = FALSE
    /\ next_task = 0
    /\ running = {}
    /\ results = <<>>
    /\ out = None
    /\ dispatch_log = <<>>
    /\ runs = {}
    /\ out_of_order = FALSE

CodecIdle ==
    /\ codec_args = None
    /\ codec_input = None
    /\ decoded = None
    /\ decoded_slow = None
    /\ encoded = None
    /\ encoded_slow = None

InitCodec ==
    /\ codec_args \in CodecArgs
    /\ codec_input \in
          {[kind |-> "identifier", identifier |-> n] : n \in Identifiers(codec_args)}
          \cup {[kind |-> "program", program |-> p] : p \in Programs(codec_args)}
    /\ decoded = None
    /\ decoded_slow = None
    /\ encoded = None
    /\ encoded_slow = None
    /\ ResultIdle
    /\ RunIdle

CallHexToProgramSlow ==
    /\ HexArgReady
    /\ decoded_slow = None
    /\ decoded_slow' = Returned(hex_to_program_slow(HexArg, codec_args.program_length,
                                    codec_args.ascii_range, codec_args.ascii_min))
    /\ UNCHANGED <<codec_args, codec_input, decoded, encoded, encoded_slow, resultVars, runVars>>

CallHexToProgram ==
    /\ HexArgReady
    /\ decoded = None
    /\ decoded' = Returned(hex_to_program(HexArg, codec_args.program_length,
                               codec_args.ascii_range, codec_args.ascii_min))
    /\ UNCHANGED <<codec_args, codec_input, decoded_slow, encoded, encoded_slow, resultVars, runVars>>

CallProgramToHexSlow ==
    /\ ProgramArgReady
    /\ encoded_slow = None
    /\ encoded_slow' = program_to_hex_slow(ProgramArg, codec_args.ascii_min,
                                           AsciiMax(codec_args), codec_args.ascii_range)
    /\ UNCHANGED <<codec_args, codec_input, decoded, decoded_slow, encoded, resultVars, runVars>>

CallProgramToHex ==
    /\ ProgramArgReady
    /\ encoded = None
    /\ encoded' = program_to_hex(ProgramArg, codec_args.ascii_min, codec_args.ascii_range)
    /\ UNCHANGED <<codec_args, codec_input, decoded, decoded_slow, encoded_slow, resultVars, runVars>>

NextCodec ==
    \/ CallHexToProgramSlow
    \/ CallHexToProgram
    \/ CallProgramToHexSlow
    \/ CallProgramToHex

SpecCodec == InitCodec /\ [][NextCodec]_vars

(***************************************************************************)
(* ExecutionResult applied to drawn exit statuses.                         *)
(***************************************************************************)
ReturnCodes == (0 - MaxSignal)..MaxStatus

InitResult ==
    /\ completed \in {CompletedProcess(returncode) : returncode \in ReturnCodes}
    /\ execution_result = None
    /\ record = None
    /\ CodecIdle
    /\ RunIdle

Construct ==
    /\ completed # None
    /\ execution_result = None
    /\ execution_result' = ExecutionResult(completed)
    /\ UNCHANGED <<completed, record, codecVars, runVars>>

WriteRecord ==
    /\ execution_result # None
    /\ record = None
    /\ record' = ResultRecord(execution_result)
    /\ UNCHANGED <<completed, execution_result, codecVars, runVars>>

NextResult == Construct \/ WriteRecord

SpecResult == InitResult /\ [][NextResult]_vars

(***************************************************************************)
(* Experiment.run: the sampling loop, then the batch on the worker pool.   *)
(***************************************************************************)
TotalLinesChoices == {1}
AsciiMinChoices == {32}
AsciiMaxChoices == {33, 34}

GeneratorConfigs ==
    [line_length : 1..MaxLineLength, total_lines : TotalLinesChoices,
     ascii_min : AsciiMinChoices, ascii_max : AsciiMaxChoices]

ExperimentConfigs == [n_workers : 1..MaxWorkers, n_samples : 1..MaxSamples]

ByteValues == (0..MaxByte) \cup {255}

\* the statuses a sandboxed child ends with: clean, crashed, killed by timeout
ChildStatuses == {0, 1, 124}

InitRun ==
    /\ generator_config \in GeneratorConfigs
    /\ experiment_config \in ExperimentConfigs
    /\ pc = "start"
    /\ hex_program_map = <<>>
    /\ hex = None
    /\ redrew = FALSE
    /\ next_task = 0
    /\ running = {}
    /\ results = <<>>
    /\ out = None
    /\ dispatch_log = <<>>
    /\ runs = {}
    /\ out_of_order = FALSE
    /\ CodecIdle
    /\ ResultIdle

\* run() up to the head of the while loop
BeginSampling ==
    /\ pc = "start"
    /\ pc' = "sampling"
    /\ hex_program_map' = <<>>
    /\ UNCHANGED <<generator_config, experiment_config, hex, redrew, batchVars,
                   codecVars, resultVars>>

\* one iteration of the while loop: draw, and store the draw unless it is known
Sample ==
    /\ pc = "sampling"
    /\ Len(hex_program_map) < experiment_config.n_samples
    /\ \E bytes \in StringsOver(ByteValues, bytes_needed(generator_config)) :
          /\ hex' = random_hex(bytes)
          /\ hex_program_map' = StoreSample(hex_program_map, random_hex(bytes), generator_config)
          /\ redrew' = (redrew \/ random_hex(bytes) \in Keys(hex_program_map))
    /\ UNCHANGED <<generator_config, experiment_config, pc, batchVars, codecVars, resultVars>>

\* the loop condition fails: Parallel is set up over the items of the map
BeginBatch ==
    /\ pc = "sampling"
    /\ ~(Len(hex_program_map) < experiment_config.n_samples)
    /\ pc' = "running"
    /\ next_task' = 0
    /\ running' = {}
    /\ results' = [i \in 1..Len(hex_program_map) |-> None]
    /\ UNCHANGED <<generator_config, experiment_config, samplingVars, out, dispatch_log, runs,
                   out_of_order, codecVars, resultVars>>

\* a free worker thread takes the next item of hex_program_map.items()
Dispatch ==
    /\ pc = "running"
    /\ Cardinality(running) < experiment_config.n_workers
    /\ next_task < Len(hex_program_map)
    /\ next_task' = next_task + 1
    /\ running' = running \cup {next_task + 1}
    /\ dispatch_log' = Append(dispatch_log, hex_program_map[next_task + 1][1])
    /\ UNCHANGED <<generator_config, experiment_config, pc, samplingVars, results, out, runs,
                   out_of_order, codecVars, resultVars>>

\* a worker's call of Runner.run returns: the child ended with some status
WorkerReturns(task) ==
    /\ pc = "running"
    /\ task \in running
    /\ \E returncode \in ChildStatuses :
          LET hex_key == hex_program_map[task][1]
              program == hex_program_map[task][2]
          IN  /\ results' = [results EXCEPT ![task] = worker(hex_key, program, returncode)]
              /\ runs' = runs \cup {[task |-> task, hex |-> hex_key, code |-> program,
                                     returncode |-> returncode]}
    /\ running' = running \ {task}
    /\ out_of_order' = (out_of_order \/ \E earlier \in running : earlier < task)
    /\ UNCHANGED <<generator_config, experiment_config, pc, samplingVars, next_task, out,
                   dispatch_log, codecVars, resultVars>>

\* a worker's call of Runner.run raises (subprocess.run cannot start the sandbox):
\* worker() has no handler, Parallel raises it again in run(), which has none either
WorkerRaises(task) ==
    /\ pc = "running"
    /\ task \in running
    /\ pc' = "raised"
    /\ results' = [results EXCEPT ![task] = [raised |-> TRUE]]
    /\ running' = running \ {task}
    /\ UNCHANGED <<generator_config, experiment_config, samplingVars, next_task, out,
                   dispatch_log, runs, out_of_order, codecVars, resultVars>>

\* every task has returned: the list of results is filtered into the returned dict
Collect ==
    /\ pc = "running"
    /\ next_task = Len(hex_program_map)
    /\ running = {}
    /\ out' = Accepted(results)
    /\ pc' = "returned"
    /\ UNCHANGED <<generator_config, experiment_config, samplingVars, next_task, running,
                   results, dispatch_log, runs, out_of_order, codecVars, resultVars>>

NextRun ==
    \/ BeginSampling
    \/ Sample
    \/ BeginBatch
    \/ Dispatch
    \/ \E task \in 1..Len(hex_program_map) : WorkerReturns(task)
    \/ \E task \in 1..Len(hex_program_map) : WorkerRaises(task)
    \/ Collect

SpecRun == InitRun /\ [][NextRun]_vars

(***************************************************************************)
(* The whole: a behaviour is one of the three above.                       *)
(***************************************************************************)
Init == InitCodec \/ InitResult \/ InitRun

Next == NextCodec \/ NextResult \/ NextRun

Spec == Init /\ [][Next]_vars

(***************************************************************************)
(* Claims about the codec, checked under SpecCodec.                        *)
(***************************************************************************)
RECURSIVE Repeat(_, _)
Repeat(c, n) == IF n = 0 THEN <<>> ELSE Append(Repeat(c, n - 1), c)

SpaceSize(args) == Pow(args.ascii_range, args.program_length)

\* C1: for an identifier id in [0, range^L - 1], decoding hex(id) with
\* hex_to_program and encoding the program with program_to_hex gives a hex
\* string whose integer value is id.
C1_RoundTripIdentifier ==
    (IsIdentifier /\ InSpace(codec_input.identifier, codec_args)
        /\ decoded # None /\ encoded # None)
    => (~encoded.raised /\ int_builtin(encoded.value) = codec_input.identifier)

C1_Witness ==
    /\ IsIdentifier
    /\ codec_args.program_length >= 2
    /\ codec_input.identifier = SpaceSize(codec_args) - 2
    /\ decoded # None
    /\ encoded # None
    /\ int_builtin(encoded.value) = codec_input.identifier

\* C2: for a program of length L over [min, min+range-1], encoding it with
\* program_to_hex and decoding the hex string with hex_to_program (same L,
\* range, min) returns the program itself.
C2_RoundTripProgram ==
    (IsProgram /\ InAlphabet(codec_input.program, codec_args)
        /\ encoded # None /\ decoded # None)
    => (~decoded.raised /\ decoded.value = codec_input.program)

C2_Witness ==
    /\ IsProgram
    /\ InAlphabet(codec_input.program, codec_args)
    /\ codec_args.program_length >= 2
    /\ codec_input.program[1] # codec_input.program[2]
    /\ encoded # None
    /\ decoded # None
    /\ decoded.value = codec_input.program

\* the first character of the program outside [ascii_min, ascii_max], as a position from 0
FirstOffender(program, args) ==
    CHOOSE i \in 0..(Len(program) - 1) :
        /\ ~InAlphabet(<<program[i + 1]>>, args)
        /\ \A j \in 0..(i - 1) : InAlphabet(<<program[j + 1]>>, args)

Rejected(outcome, program, args) ==
    /\ outcome.raised
    /\ outcome.position = FirstOffender(program, args)
    /\ outcome.char = <<program[outcome.position + 1]>>

\* C3: encoding a program holding a character with code < min or > max
\* fails with an error naming the offending character and its position,
\* and returns no identifier; this for program_to_hex and for
\* program_to_hex_slow.
C3_OutOfRangeRejected ==
    (IsProgram /\ ~InAlphabet(codec_input.program, codec_args))
    => /\ (encoded # None => Rejected(encoded, codec_input.program, codec_args))
       /\ (encoded_slow # None => Rejected(encoded_slow, codec_input.program, codec_args))

\* C4: hex_to_program and hex_to_program_slow return the same program for
\* the same hex string, L, range and min; program_to_hex and
\* program_to_hex_slow return the same hex string for the same program
\* over [min, max].
C4_VariantsAgree ==
    /\ (decoded # None /\ decoded_slow # None) => decoded = decoded_slow
    /\ (encoded # None /\ encoded_slow # None /\ InAlphabet(ProgramArg, codec_args))
       => encoded = encoded_slow

C4_Witness ==
    /\ IsProgram
    /\ InAlphabet(codec_input.program, codec_args)
    /\ codec_args.program_length >= 2
    /\ codec_input.program[2] # codec_args.ascii_min
    /\ decoded # None /\ decoded_slow # None /\ decoded = decoded_slow
    /\ encoded # None /\ encoded_slow # None /\ encoded = encoded_slow

\* C5: identifier 0 decodes to the character of code min repeated L times,
\* and identifier range^L - 1 to the character of code min+range-1
\* repeated L times.
C5_BoundaryValues ==
    (IsIdentifier /\ decoded # None)
    => /\ codec_input.identifier = 0
          => decoded.value = Repeat(codec_args.ascii_min, codec_args.program_length)
       /\ codec_input.identifier = SpaceSize(codec_args) - 1
          => decoded.value = Repeat(AsciiMax(codec_args), codec_args.program_length)

C5_Witness ==
    /\ IsIdentifier
    /\ codec_args.program_length >= 2
    /\ codec_input.identifier = SpaceSize(codec_args) - 1
    /\ decoded # None
    /\ decoded.value = Repeat(AsciiMax(codec_args), codec_args.program_length)

(***************************************************************************)
(* Claims about ExecutionResult, checked under SpecResult.                 *)
(***************************************************************************)
\* C8: for every exit status the outcome is exactly one of ok (status 0),
\* timed-out (status 124) and failed (any other status); success is true
\* exactly when the outcome is ok or timed-out, so a status other than 0
\* and 124 gives ok = false, timed_out = false, success = false.
C8_Classification ==
    record # None =>
        LET status == completed.returncode
            failed == ~record.ok /\ ~record.timed_out
        IN  /\ record.returncode = status
            /\ record.ok <=> status = 0
            /\ record.timed_out <=> status = 124
            /\ failed <=> status \notin {0, 124}
            /\ ~(record.ok /\ record.timed_out)
            /\ record.success <=> (record.ok \/ record.timed_out)
            /\ status \notin {0, 124}
               => (~record.ok /\ ~record.timed_out /\ ~record.success)

C8_Witness ==
    /\ record # None
    /\ completed.returncode = 1
    /\ ~record.ok /\ ~record.timed_out /\ ~record.success

(***************************************************************************)
(* Claims about Experiment.run, checked under SpecRun.                     *)
(***************************************************************************)
ConfigSpaceSize == Pow(ascii_range(generator_config), program_length(generator_config))

SamplingDone == pc \in {"running", "returned", "raised"}

\* no two entries of the map have the same hex string, nor the same integer value
DistinctKeys ==
    /\ Cardinality(Keys(hex_program_map)) = Len(hex_program_map)
    /\ Cardinality({int_builtin(h) : h \in Keys(hex_program_map)}) = Len(hex_program_map)

\* C6: whatever is drawn, once the sampling loop has finished the map
\* holds exactly n_samples entries with pairwise distinct identifiers; a
\* draw of an identifier already in the map adds no entry (no key occurs
\* twice, and every draw is a key of the map) and does not count towards
\* n_samples: the loop draws again.
C6_UniqueSamples ==
    /\ DistinctKeys
    /\ pc = "sampling" => Len(hex_program_map) <= experiment_config.n_samples
    /\ (pc = "sampling" /\ hex # None) => hex \in Keys(hex_program_map)
    /\ SamplingDone => Len(hex_program_map) = experiment_config.n_samples

C6_Witness ==
    /\ pc = "running"
    /\ redrew
    /\ experiment_config.n_samples >= 2
    /\ Len(hex_program_map) = experiment_config.n_samples
    /\ DistinctKeys

\* C7: when n_samples exceeds the size range^L of the identifier space,
\* run() stops with an error before the redraw loop is entered.
C7_FailsFast ==
    experiment_config.n_samples > ConfigSpaceSize => pc \in {"start", "error"}

Raised == {i \in DOMAIN results : results[i] = [raised |-> TRUE]}

\* C9: when the harness invocation of one candidate raises, run() still
\* completes the batch: it does not end with the exception, and when it
\* returns every other candidate has been executed and classified.
C9_BatchIsolated ==
    Raised # {} =>
        /\ pc \in {"running", "returned"}
        /\ pc = "returned" =>
              \A i \in DOMAIN results \ Raised : results[i] # None

Occurrences(log, h) == Cardinality({i \in 1..Len(log) : log[i] = h})

RunsOf(h) == {r \in runs : r.hex = h}

\* C10: under every interleaving and order of completion, each sampled
\* identifier is dispatched to the harness exactly once, and the returned
\* map holds exactly the identifiers whose own result satisfies success,
\* each with the result of the run of its own program.
C10_Aggregation ==
    /\ pc \in {"running", "returned", "raised"} =>
          \A h \in Keys(hex_program_map) : Occurrences(dispatch_log, h) <= 1
    /\ pc = "returned" =>
          /\ \A h \in Keys(hex_program_map) :
                Occurrences(dispatch_log, h) = 1 /\ Cardinality(RunsOf(h)) = 1
          /\ Len(dispatch_log) = Len(hex_program_map)
          /\ DOMAIN out =
                {h \in Keys(hex_program_map) :
                    \E r \in RunsOf(h) : success(runner_run(r.code, r.returncode))}
          /\ \A h \in DOMAIN out :
                \E r \in RunsOf(h) :
                    /\ r.code = Lookup(hex_program_map, h)
                    /\ out[h] = runner_run(r.code, r.returncode)

C10_Witness ==
    /\ pc = "returned"
    /\ experiment_config.n_workers >= 2
    /\ out_of_order
    /\ \E r1, r2 \in runs :
          /\ r1.task < r2.task
          /\ r1.returncode = 1
          /\ r2.returncode = 124
          /\ r1.hex \notin DOMAIN out
          /\ r2.hex \in DOMAIN out

\* C11: every identifier the sampling loop has stored has an integer value
\* in [0, range^L - 1], encoding the program stored for it with
\* program_to_hex gives that same integer, and two distinct stored
\* identifiers never have the same program.
C11_InverseConsistent ==
    pc \in {"sampling", "running", "returned", "raised"} =>
        /\ \A i \in 1..Len(hex_program_map) :
              LET identifier == int_builtin(hex_program_map[i][1])
                  program == hex_program_map[i][2]
                  again == program_to_hex(program, generator_config.ascii_min,
                                          ascii_range(generator_config))
              IN  /\ identifier >= 0
                  /\ identifier <= ConfigSpaceSize - 1
                  /\ int_builtin(again.value) = identifier
        /\ \A i, j \in 1..Len(hex_program_map) :
              hex_program_map[i][1] # hex_program_map[j][1]
              => hex_program_map[i][2] # hex_program_map[j][2]

====
